---- MODULE Spec2Model ----
(***************************************************************************)
(* A model of the multi-overlay application (overlay registry, hotkey      *)
(* store, global key listener, session controller) and of the crash-loop   *)
(* guard of the single-overlay application.                                *)
(***************************************************************************)
EXTENDS Integers, Sequences, FiniteSets, TLC

VARIABLES
    overlays,             \* OverlayManager.overlays: insertion-ordered dict, a sequence of overlay records
    current_overlay_id,   \* OverlayManager.current_overlay_id
    custom_dir,           \* the declaration files of overlays/custom
    builtin_dir,          \* the built-in modules, in the order os.listdir lists them
    hotkeys,              \* HotkeyManager.hotkeys: insertion-ordered dict, a sequence of [id, hk]
    unified_menu_hotkey,  \* HotkeyManager.unified_menu_hotkey
    hotkeys_file,         \* the content of HOTKEYS_FILE
    handle_new_trigger,   \* listener.handle_new_trigger: the closure's (overlay_id, is_unified_menu), or not pending
    window,               \* the overlay window: "hidden", "visible" (on screen, not key) or "key"
    webview,              \* the url the web view was last asked to load
    pc,                   \* [loaded, discovered, phase]: how far start-up has got
    tap,                  \* whether CGEventTapCreate returned a tap
    captures,             \* how many hotkey captures were requested
    last,                 \* the most recent operation, with the state it started from
    crash_file,           \* the content of CRASH_COUNTER_FILE
    clock,                \* time.time()
    attempts,             \* the outcomes of the check_crash_loop calls so far
    proc,                 \* the process of the decorated main: [phase, cause, status, ran_main, relaunched]
    launcher              \* the Launch Agent and the permission wait: [plist, loaded, phase, elapsed, probes]

vars == <<overlays, current_overlay_id, custom_dir, builtin_dir, hotkeys, unified_menu_hotkey,
          hotkeys_file, handle_new_trigger, window, webview, pc, tap, captures,
          last, crash_file, clock, attempts, proc, launcher>>

appVars == <<overlays, current_overlay_id, custom_dir, builtin_dir, hotkeys, unified_menu_hotkey,
             hotkeys_file, handle_new_trigger, window, webview, pc, tap, captures, last>>

crashVars == <<crash_file, clock, attempts, proc, launcher>>

(***************************************************************************)
(* Bounds of the model.                                                    *)
(***************************************************************************)
MaxCaptures == 2

\* how many declaration files overlays/custom holds when the registry is studied alone
MaxFiles == 2

\* how many start-up attempts the crash guard is followed through
MaxAttempts == 5

\* time.time() when the first attempt may be made
StartTime == 100

None == "None"

\* A key that a dict does not hold (hotkey['flags'] raises KeyError).
MISSING == 0 - 1

(***************************************************************************)
(* Constants of the program.                                               *)
(***************************************************************************)
\* Shift | Control | Alternate | Command = 0x20000 + 0x40000 + 0x80000 + 0x100000
LAUNCHER_TRIGGER_MASK == 1966080

UNIFIED_MENU_TRIGGER == [flags |-> 655360, key |-> 49]

GrokOverlay ==
    [id |-> "grok", name |-> "Grok", url |-> "https://grok.com?referrer=macos-multi-overlay",
     icon_path |-> "../../images/grok_logo.png",
     default_hotkey |-> [flags |-> 524288, key |-> 49]]

ClaudeOverlay ==
    [id |-> "claude", name |-> "Claude", url |-> "https://claude.ai",
     icon_path |-> "../../images/claude_logo.png",
     default_hotkey |-> [flags |-> 655360, key |-> 49]]

GeminiOverlay ==
    [id |-> "gemini", name |-> "Gemini", url |-> "https://gemini.google.com",
     icon_path |-> "../../images/gemini_logo.png",
     default_hotkey |-> [flags |-> 786432, key |-> 49]]

ChatGPTOverlay ==
    [id |-> "chatgpt", name |-> "ChatGPT", url |-> "https://chat.openai.com",
     icon_path |-> "../../images/chatgpt_logo.png",
     default_hotkey |-> [flags |-> 917504, key |-> 49]]

\* The Overlay subclasses of overlays/builtin
BuiltinOverlays == {GrokOverlay, GeminiOverlay, ClaudeOverlay, ChatGPTOverlay}

\* Overlay.default_hotkey of the base class: {}
EmptyHotkey == [flags |-> MISSING, key |-> MISSING]

(***************************************************************************)
(* Inputs.                                                                 *)
(***************************************************************************)
\* A declaration file of overlays/custom: the four required fields, "<absent>" for
\* a field the file does not hold, and defaultHotkey (EmptyHotkey when not declared).
CustomDecl ==
    [id |-> "custom", name |-> "Custom", url |-> "https://example.com/json",
     iconPath |-> "json_icon.png", defaultHotkey |-> EmptyHotkey]

\* a file of overlays/custom that json.load cannot parse
UnparsableFile ==
    [id |-> "<not json>", name |-> "<not json>", url |-> "<not json>",
     iconPath |-> "<not json>", defaultHotkey |-> EmptyHotkey]

\* declarations without 'url', with an empty url and with an empty iconPath
NoUrlDecl ==
    [id |-> "nourl", name |-> "No Url", url |-> "<absent>",
     iconPath |-> "icon.png", defaultHotkey |-> EmptyHotkey]

EmptyUrlDecl ==
    [id |-> "emptyurl", name |-> "Empty Url", url |-> "",
     iconPath |-> "icon.png", defaultHotkey |-> EmptyHotkey]

EmptyIconDecl ==
    [id |-> "noicon", name |-> "No Icon", url |-> "https://example.com/noicon",
     iconPath |-> "", defaultHotkey |-> EmptyHotkey]

\* a valid declaration under the id of a built-in overlay
GrokAgainDecl ==
    [id |-> "grok", name |-> "My Grok", url |-> "https://example.com/grok",
     iconPath |-> "/icons/grok.png", defaultHotkey |-> [flags |-> 524288, key |-> 36]]

\* the files overlays/custom may hold
Declarations ==
    {CustomDecl, UnparsableFile, NoUrlDecl, EmptyUrlDecl, EmptyIconDecl, GrokAgainDecl}

\* the directories of at most MaxFiles such files, in the order os.listdir lists them
CustomDirs ==
    UNION { [1..n -> Declarations] : n \in 0..MaxFiles }

\* orders in which os.listdir may list the four built-in modules
Listings ==
    { <<ChatGPTOverlay, ClaudeOverlay, GeminiOverlay, GrokOverlay>>,
      <<GrokOverlay, GeminiOverlay, ClaudeOverlay, ChatGPTOverlay>>,
      <<ClaudeOverlay, GrokOverlay, ChatGPTOverlay, GeminiOverlay>> }

\* overlays a caller may hand to register_overlay
TestOverlays ==
    { [id |-> "test", name |-> "Test", url |-> "https://example.com/test",
       icon_path |-> "/icons/test.png", default_hotkey |-> EmptyHotkey],
      [id |-> "test", name |-> "Test 2", url |-> "https://example.com/test2",
       icon_path |-> "/icons/test2.png", default_hotkey |-> EmptyHotkey],
      [id |-> "grok", name |-> "Other Grok", url |-> "https://example.com/other",
       icon_path |-> "/icons/other.png", default_hotkey |-> EmptyHotkey] }

\* ids a caller may hand to set_current_overlay: registered ones and one never registered
SelectableIds == {"grok", "claude", "test", "nosuch"}

\* command lines: --site <id> (None when absent) together with at most one of the
\* other flags
Arguments ==
    [site : {None, "grok", "nosuch"},
     flag : {"none", "list_sites", "install_startup", "uninstall_startup", "check_permissions"}]

\* exit statuses of launchctl load
LoadResults == {0, 256}

\* Contents of the hotkey file at start-up: whether it exists, its 'overlays' dict (in
\* file order) and its 'unified_menu' entry (has_unified: the file holds that key).
NoFile == [exists |-> FALSE, overlays |-> <<>>, has_unified |-> FALSE, unified_menu |-> EmptyHotkey]

\* What the process finds on disk when it starts: the hotkey file, the declaration
\* files of overlays/custom and the order in which os.listdir lists the built-in
\* modules (it promises none).
Environments ==
    { [file |-> NoFile, custom |-> <<>>, listing |-> <<GrokOverlay, ClaudeOverlay>>],
      [file |-> [exists |-> TRUE,
                 overlays |-> << [id |-> "grok", hk |-> [flags |-> 524288, key |-> 36]] >>,
                 has_unified |-> TRUE, unified_menu |-> [flags |-> 524288, key |-> 49]],
       custom |-> <<>>, listing |-> <<ClaudeOverlay, GrokOverlay>>],
      [file |-> [exists |-> TRUE,
                 overlays |-> << [id |-> "old", hk |-> [flags |-> 524288, key |-> 49]] >>,
                 has_unified |-> FALSE, unified_menu |-> EmptyHotkey],
       custom |-> <<CustomDecl>>, listing |-> <<GrokOverlay, ClaudeOverlay>>],
      [file |-> [exists |-> TRUE,
                 overlays |-> << [id |-> "claude", hk |-> [flags |-> 655360, key |-> MISSING]] >>,
                 has_unified |-> FALSE, unified_menu |-> EmptyHotkey],
       custom |-> <<>>, listing |-> <<GrokOverlay, ClaudeOverlay>>],
      [file |-> [exists |-> TRUE,
                 overlays |-> << [id |-> "claude", hk |-> [flags |-> 655360, key |-> MISSING]],
                                 [id |-> "grok", hk |-> [flags |-> 655360, key |-> 49]],
                                 [id |-> "old", hk |-> [flags |-> 655360, key |-> 49]] >>,
                 has_unified |-> TRUE, unified_menu |-> [flags |-> 524288, key |-> 36]],
       custom |-> <<>>, listing |-> <<GrokOverlay, ClaudeOverlay>>] }

\* Overlay ids an operation may be called with: the registered ones and one that is
\* never registered.
OverlayIds == {"grok", "claude", "custom", "old"}

\* Seconds between one use of the crash counter and the next
Delays == {0, 5, 10, 59, 60, 120}

\* Key-down events: CGEventGetFlags (256 is a bit outside the modifier mask) and the
\* key code.
KeyEvents == { <<524288 + 256, 49>>, <<655360, 49>>, <<524288, 36>> }

(***************************************************************************)
(* Pure helpers.                                                           *)
(***************************************************************************)
RECURSIVE BitAnd(_, _)
BitAnd(a, b) ==
    IF a = 0 \/ b = 0 THEN 0
    ELSE (a % 2) * (b % 2) + 2 * BitAnd(a \div 2, b \div 2)

\* dict lookup by key in an insertion-ordered dict of records with field id
RECURSIVE IndexOf(_, _, _)
IndexOf(d, id, i) ==
    IF i > Len(d) THEN 0
    ELSE IF d[i].id = id THEN i
    ELSE IndexOf(d, id, i + 1)

HasKey(d, id) == IndexOf(d, id, 1) # 0

\* d[id] = entry: replaces in place, or appends
DictSet(d, entry) ==
    LET i == IndexOf(d, entry.id, 1)
    IN  IF i = 0 THEN Append(d, entry) ELSE [d EXCEPT ![i] = entry]

Ids(d) == { d[i].id : i \in 1..Len(d) }

(***************************************************************************)
(* Overlay (overlays/base.py).                                             *)
(***************************************************************************)
\* json.load(f) returns
parses(file) == file # UnparsableFile

\* Overlay.from_json raises ValueError: a required field is missing
missing_fields(json_data) ==
    "<absent>" \in {json_data.id, json_data.name, json_data.url, json_data.iconPath}

\* Overlay.from_json: the overlay it returns when it does not raise
from_json(json_data) ==
    [id |-> json_data.id, name |-> json_data.name, url |-> json_data.url,
     icon_path |-> json_data.iconPath, default_hotkey |-> json_data.defaultHotkey]

\* os.path.isabs over the icon paths of the declarations
isabs(path) == path \in {"/icons/grok.png", "/icons/test.png", "/icons/test2.png",
                         "/icons/other.png"}

\* os.path.abspath(os.path.join(base_dir, path)) for base_dir = overlays/custom:
\* joining the empty path gives the directory itself
abspath_join(path) ==
    CASE path = "" -> "/overlays/custom"
      [] path = "icon.png" -> "/overlays/custom/icon.png"
      [] path = "json_icon.png" -> "/overlays/custom/json_icon.png"
      [] OTHER -> "/overlays/custom/other"

\* Overlay.get_absolute_icon_path(custom_dir)
get_absolute_icon_path(overlay) ==
    IF isabs(overlay.icon_path) THEN overlay.icon_path ELSE abspath_join(overlay.icon_path)

\* Overlay.validate
validate(overlay) ==
    /\ overlay.id # ""
    /\ overlay.name # ""
    /\ overlay.url # ""
    /\ overlay.icon_path # ""

(***************************************************************************)
(* OverlayManager (overlays/__init__.py).                                  *)
(***************************************************************************)
\* a variant that keeps the overlay already registered under the id
register_overlay_keeps_first(reg, overlay) ==
    IF HasKey(reg, overlay.id) THEN reg ELSE Append(reg, overlay)

\* register_overlay: self.overlays[overlay.id] = overlay
register_overlay(reg, overlay) == DictSet(reg, overlay)

\* what get_overlay returns for an id that is not registered (None)
NoOverlay ==
    [id |-> None, name |-> None, url |-> None, icon_path |-> None,
     default_hotkey |-> EmptyHotkey]

\* get_overlay: self.overlays.get(overlay_id)
get_overlay(reg, overlay_id) ==
    IF HasKey(reg, overlay_id) THEN reg[IndexOf(reg, overlay_id, 1)] ELSE NoOverlay

\* get_all_overlays: list(self.overlays.values())
get_all_overlays(reg) == reg

\* _discover_builtin_overlays over one listing of the built-in modules
RECURSIVE discover_builtin(_, _)
discover_builtin(reg, listing) ==
    IF listing = <<>> THEN reg
    ELSE discover_builtin(
             IF validate(Head(listing)) THEN register_overlay(reg, Head(listing)) ELSE reg,
             Tail(listing))

\* _discover_custom_overlays over the declaration files: a file that raises is skipped
RECURSIVE discover_custom(_, _)
discover_custom(reg, files) ==
    IF files = <<>> THEN reg
    ELSE IF ~parses(Head(files)) THEN discover_custom(reg, Tail(files))
    ELSE IF missing_fields(Head(files)) THEN discover_custom(reg, Tail(files))
    ELSE LET parsed == from_json(Head(files))
             overlay == [parsed EXCEPT !.icon_path = get_absolute_icon_path(parsed)]
         IN  discover_custom(
                 IF validate(overlay) THEN register_overlay(reg, overlay) ELSE reg,
                 Tail(files))

\* a variant that takes the first overlay also when a current overlay is set
default_current_overlay_always(reg, cur) ==
    IF reg # <<>> THEN reg[1].id ELSE cur

\* discover_overlays: if not self.current_overlay_id and self.overlays, the current
\* overlay becomes next(iter(self.overlays))
default_current_overlay(reg, cur) ==
    IF cur = None /\ reg # <<>> THEN reg[1].id ELSE cur

\* the ids of a list of overlays, in its order
IdList(reg) == [i \in 1..Len(reg) |-> reg[i].id]

\* get_overlay(overlay_id) is not None
IsRegistered(overlay_id) == HasKey(overlays, overlay_id)

\* a variant that accepts every id
set_current_overlay_any(overlay_id) == TRUE

\* set_current_overlay: the value it returns
set_current_overlay(overlay_id) == IsRegistered(overlay_id)

\* get_current_overlay: the position of the current overlay in the registry, 0 for None
get_current_overlay ==
    IF current_overlay_id # None THEN IndexOf(overlays, current_overlay_id, 1) ELSE 0

(***************************************************************************)
(* HotkeyManager (config/hotkeys.py).                                      *)
(***************************************************************************)
\* the defaults load_hotkeys adds for the overlays lacking an entry
RECURSIVE merge_defaults(_, _)
merge_defaults(hks, reg) ==
    IF reg = <<>> THEN hks
    ELSE merge_defaults(
             IF HasKey(hks, Head(reg).id) THEN hks
             ELSE Append(hks, [id |-> Head(reg).id, hk |-> Head(reg).default_hotkey]),
             Tail(reg))

\* flags == hotkey['flags'] and keycode == hotkey['key'], evaluated left to right:
\* "yes", "no", or "KeyError" when a key it reads is missing
hotkey_equals(hotkey, flags, keycode) ==
    IF hotkey.flags = MISSING THEN "KeyError"
    ELSE IF flags # hotkey.flags THEN "no"
    ELSE IF hotkey.key = MISSING THEN "KeyError"
    ELSE IF keycode = hotkey.key THEN "yes"
    ELSE "no"

\* the loop of handle_key_event over self.hotkeys.items()
RECURSIVE scan_hotkeys(_, _, _)
scan_hotkeys(hks, flags, keycode) ==
    IF hks = <<>> THEN None
    ELSE LET m == hotkey_equals(Head(hks).hk, flags, keycode)
         IN  IF m = "yes" THEN Head(hks).id
             ELSE IF m = "KeyError" THEN "KeyError"
             ELSE scan_hotkeys(Tail(hks), flags, keycode)

\* handle_key_event: 'unified_menu', an overlay id, None, or "KeyError" when it raises
handle_key_event(flags, keycode) ==
    LET u == hotkey_equals(unified_menu_hotkey, flags, keycode)
    IN  IF u = "yes" THEN "unified_menu"
        ELSE IF u = "KeyError" THEN "KeyError"
        ELSE scan_hotkeys(hotkeys, flags, keycode)

\* get_overlay_hotkey: self.hotkeys.get(overlay_id), EmptyHotkey standing for None
get_overlay_hotkey(overlay_id) ==
    LET i == IndexOf(hotkeys, overlay_id, 1)
    IN  IF i = 0 THEN EmptyHotkey ELSE hotkeys[i].hk

\* save_hotkeys: what json.dump writes
saved_file(hks, unified) ==
    [exists |-> TRUE, overlays |-> hks, has_unified |-> TRUE, unified_menu |-> unified]

\* a variant that takes the combination away from the overlays that had it
set_overlay_hotkey_unbinds_others(overlay_id, flags, key) ==
    /\ hotkeys' = DictSet([i \in 1..Len(hotkeys) |->
                              IF hotkeys[i].hk = [flags |-> flags, key |-> key]
                              THEN [id |-> hotkeys[i].id, hk |-> EmptyHotkey]
                              ELSE hotkeys[i]],
                          [id |-> overlay_id, hk |-> [flags |-> flags, key |-> key]])
    /\ hotkeys_file' = saved_file(hotkeys', unified_menu_hotkey)
    /\ UNCHANGED unified_menu_hotkey

\* a variant that keeps the binding an overlay already has
set_overlay_hotkey_keep_existing(overlay_id, flags, key) ==
    /\ hotkeys' = IF HasKey(hotkeys, overlay_id) THEN hotkeys
                  ELSE DictSet(hotkeys, [id |-> overlay_id, hk |-> [flags |-> flags, key |-> key]])
    /\ hotkeys_file' = saved_file(hotkeys', unified_menu_hotkey)
    /\ UNCHANGED unified_menu_hotkey

\* set_overlay_hotkey, with the save it ends with
set_overlay_hotkey(overlay_id, flags, key) ==
    /\ hotkeys' = DictSet(hotkeys, [id |-> overlay_id, hk |-> [flags |-> flags, key |-> key]])
    /\ hotkeys_file' = saved_file(hotkeys', unified_menu_hotkey)
    /\ UNCHANGED unified_menu_hotkey

\* a variant that does not save
set_unified_menu_hotkey_unsaved(flags, key) ==
    /\ unified_menu_hotkey' = [flags |-> flags, key |-> key]
    /\ UNCHANGED <<hotkeys, hotkeys_file>>

\* set_unified_menu_hotkey, with the save it ends with
set_unified_menu_hotkey(flags, key) ==
    /\ unified_menu_hotkey' = [flags |-> flags, key |-> key]
    /\ hotkeys_file' = saved_file(hotkeys, unified_menu_hotkey')
    /\ UNCHANGED hotkeys

\* HotkeyManager(): what a store constructed over file holds, the registry being reg
fresh_store(file, reg) ==
    [hotkeys |-> merge_defaults(IF file.exists THEN file.overlays ELSE <<>>, reg),
     unified_menu_hotkey |-> IF file.exists /\ file.has_unified
                             THEN file.unified_menu ELSE UNIFIED_MENU_TRIGGER]

\* get_overlay_hotkey / get_unified_menu_hotkey of a store
store_get(store, target) ==
    IF target = "unified_menu" THEN store.unified_menu_hotkey
    ELSE LET i == IndexOf(store.hotkeys, target, 1)
         IN  IF i = 0 THEN EmptyHotkey ELSE store.hotkeys[i].hk

(***************************************************************************)
(* The crash-loop guard (macos_grok_overlay/health_checks.py).             *)
(***************************************************************************)
CRASH_THRESHOLD == 3

CRASH_TIME_WINDOW == 60

\* CRASH_COUNTER_FILE does not exist
NoCounter == [exists |-> FALSE, last_time |-> 0, count |-> 0]

\* a variant whose window includes its end
new_count_inclusive_window(file, current_time) ==
    LET count == IF file.exists THEN file.count ELSE 0
        last_time == IF file.exists THEN file.last_time ELSE 0
    IN  IF current_time - last_time <= CRASH_TIME_WINDOW THEN count + 1 ELSE 1

\* check_crash_loop: the count it computes from the file, at current_time
new_count(file, current_time) ==
    LET count == IF file.exists THEN file.count ELSE 0
        last_time == IF file.exists THEN file.last_time ELSE 0
    IN  IF current_time - last_time < CRASH_TIME_WINDOW THEN count + 1 ELSE 1

\* a variant that aborts when the count reaches the threshold
crash_loop_detected_at_threshold(count) == count >= CRASH_THRESHOLD

\* check_crash_loop: it calls sys.exit(1)
crash_loop_detected(count) == count > CRASH_THRESHOLD

\* a variant that does not write the file when it aborts
check_crash_loop_forgets_abort(delay) ==
    /\ clock' = clock + delay
    /\ LET count == new_count(crash_file, clock')
       IN  /\ crash_file' = IF crash_loop_detected(count) THEN crash_file
                            ELSE [exists |-> TRUE, last_time |-> clock', count |-> count]
           /\ attempts' = Append(attempts,
                  [op |-> "attempt", time |-> clock', delay |-> delay, count |-> count,
                   result |-> IF crash_loop_detected(count) THEN "abort" ELSE "ok"])

\* check_crash_loop, delay seconds after the counter was last used
check_crash_loop(delay) ==
    /\ clock' = clock + delay
    /\ LET count == new_count(crash_file, clock')
       IN  /\ crash_file' = [exists |-> TRUE, last_time |-> clock', count |-> count]
           /\ attempts' = Append(attempts,
                  [op |-> "attempt", time |-> clock', delay |-> delay, count |-> count,
                   result |-> IF crash_loop_detected(count) THEN "abort" ELSE "ok"])

\* a variant that leaves the file in place
reset_crash_counter_keeps_file ==
    /\ crash_file' = crash_file
    /\ attempts' = Append(attempts,
           [op |-> "reset", time |-> clock, delay |-> 0, count |-> 0, result |-> "ok"])
    /\ UNCHANGED clock

\* reset_crash_counter: removes the file
reset_crash_counter ==
    /\ crash_file' = NoCounter
    /\ attempts' = Append(attempts,
           [op |-> "reset", time |-> clock, delay |-> 0, count |-> 0, result |-> "ok"])
    /\ UNCHANGED clock

\* no process of the decorated main has been started
NoProcess ==
    [phase |-> "none", cause |-> "none", status |-> 0, ran_main |-> FALSE, relaunched |-> FALSE]

\* the ways the process of the decorated main ends
ExitCauses ==
    {"crash_loop", "exception", "unknown_site", "no_overlay", "permission_denied",
     "permission_granted", "return"}

\* the status the process ends with: the argument of sys.exit, 0 when the wrapper returns
exit_status(cause) ==
    CASE cause = "crash_loop" -> 1
      [] cause = "exception" -> 1
      [] cause = "unknown_site" -> 1
      [] cause = "no_overlay" -> 1
      [] cause = "permission_denied" -> 1
      [] cause = "permission_granted" -> 0
      [] cause = "return" -> 0

\* the process ends: neither check_crash_loop nor the wrapper starts another one
exited(cause) ==
    [proc EXCEPT !.phase = "exited", !.cause = cause, !.status = exit_status(cause)]

(***************************************************************************)
(* The Launch Agent and the permission wait (macos_grok_overlay/           *)
(* launcher.py).                                                           *)
(***************************************************************************)
\* wait_for_permissions(max_wait_sec=60, wait_interval_sec=5)
MAX_WAIT_SEC == 60

WAIT_INTERVAL_SEC == 5

\* no Launch Agent file, nothing loaded, ensure_accessibility_permissions not called
NoLauncher ==
    [plist |-> FALSE, loaded |-> FALSE, phase |-> "idle", elapsed |-> 0, probes |-> 0]

\* install_startup: writes the Launch Agent file, then runs launchctl load, whose exit
\* status is result
install_startup(result) ==
    launcher' = [launcher EXCEPT !.plist = TRUE,
                                 !.loaded = IF result = 0 THEN TRUE ELSE launcher.loaded]

\* install_startup: the value it returns
install_startup_returns(result) == result = 0

\* uninstall_startup: launchctl unload and os.remove when the file exists
uninstall_startup ==
    launcher' = IF launcher.plist
                THEN [launcher EXCEPT !.plist = FALSE, !.loaded = FALSE]
                ELSE launcher

(***************************************************************************)
(* History: the most recent operation.                                     *)
(***************************************************************************)
NoTrigger == [pending |-> FALSE, overlay_id |-> None, is_unified_menu |-> FALSE]

NoLast ==
    [op |-> "none", arg |-> None, flags |-> 0, key |-> 0, capturing |-> None,
     result |-> "none", emit |-> "none", from |-> "n/a", twice_from |-> "n/a",
     output |-> <<>>]

\* the target of the pending capture: the selector, an overlay id, or None
Capturing ==
    IF ~handle_new_trigger.pending THEN None
    ELSE IF handle_new_trigger.is_unified_menu THEN "unified_menu"
    ELSE handle_new_trigger.overlay_id

\* the record of an operation op(arg): capturing is the capture pending when it began
Op(op, arg) == [NoLast EXCEPT !.op = op, !.arg = arg, !.capturing = Capturing]

(***************************************************************************)
(* Start-up.                                                               *)
(***************************************************************************)
Init ==
    /\ overlays = <<>>
    /\ current_overlay_id = None
    /\ \E env \in Environments :
           /\ hotkeys_file = env.file
           /\ custom_dir = env.custom
           /\ builtin_dir = env.listing
    /\ hotkeys = <<>>
    /\ unified_menu_hotkey = UNIFIED_MENU_TRIGGER
    /\ handle_new_trigger = NoTrigger
    /\ window = "hidden"
    /\ webview = "about:blank"
    /\ pc = [loaded |-> FALSE, discovered |-> FALSE, phase |-> "start"]
    /\ tap = FALSE
    /\ captures = 0
    /\ last = NoLast
    /\ crash_file = NoCounter
    /\ clock = StartTime
    /\ attempts = <<>>
    /\ proc = NoProcess
    /\ launcher = NoLauncher

\* HotkeyManager.__init__ / load_hotkeys
LoadHotkeys ==
    /\ pc.phase = "start"
    /\ ~pc.loaded
    /\ LET from_file == IF hotkeys_file.exists THEN hotkeys_file.overlays ELSE hotkeys
       IN  hotkeys' = merge_defaults(from_file, overlays)
    /\ unified_menu_hotkey' =
           IF hotkeys_file.exists /\ hotkeys_file.has_unified
           THEN hotkeys_file.unified_menu ELSE unified_menu_hotkey
    /\ pc' = [pc EXCEPT !.loaded = TRUE]
    /\ last' = Op("load_hotkeys", None)
    /\ UNCHANGED <<overlays, current_overlay_id, custom_dir, builtin_dir, hotkeys_file,
                   handle_new_trigger, window, webview, tap, captures>>
    /\ UNCHANGED crashVars

\* OverlayManager.discover_overlays, called by main
DiscoverOverlays ==
    /\ pc.phase = "start"
    /\ ~pc.discovered
    /\ overlays' = discover_custom(discover_builtin(overlays, builtin_dir), custom_dir)
    /\ current_overlay_id' = default_current_overlay(overlays', current_overlay_id)
    /\ pc' = [pc EXCEPT !.discovered = TRUE]
    /\ last' = Op("discover_overlays", None)
    /\ UNCHANGED <<custom_dir, builtin_dir, hotkeys, unified_menu_hotkey, hotkeys_file,
                   handle_new_trigger, window, webview, tap, captures>>
    /\ UNCHANGED crashVars

\* main: --site <id>, exit 1 when the overlay is unknown
SiteArgument(site) ==
    /\ pc.phase = "start"
    /\ pc.discovered
    /\ pc.loaded
    /\ last.op # "site"
    /\ IF set_current_overlay(site)
       THEN /\ current_overlay_id' = site
            /\ pc' = pc
            /\ last' = [Op("site", site) EXCEPT !.result = "true"]
       ELSE /\ current_overlay_id' = current_overlay_id
            /\ pc' = [pc EXCEPT !.phase = "exit"]
            /\ last' = [Op("site", site) EXCEPT !.result = "false"]
    /\ UNCHANGED <<overlays, custom_dir, builtin_dir, hotkeys, unified_menu_hotkey, hotkeys_file,
                   handle_new_trigger, window, webview, tap, captures>>
    /\ UNCHANGED crashVars

\* load_current_overlay: the url the web view is asked to load when cid is current
load_current_overlay(cid) ==
    LET i == IF cid # None THEN IndexOf(overlays, cid, 1) ELSE 0
    IN  IF i # 0 THEN overlays[i].url ELSE webview

\* AppDelegate.applicationDidFinishLaunching_: with a tap CFRunLoopRun() takes over
\* and the lines after it do not run; without one the overlay is loaded and shown
ApplicationDidFinishLaunching(tap_created) ==
    /\ pc.phase = "start"
    /\ pc.discovered
    /\ pc.loaded
    /\ get_current_overlay # 0
    /\ tap' = tap_created
    /\ IF tap_created
       THEN UNCHANGED <<webview, window>>
       ELSE /\ webview' = load_current_overlay(current_overlay_id)
            /\ window' = "key"
    /\ pc' = [pc EXCEPT !.phase = "gui"]
    /\ last' = Op("launch", None)
    /\ UNCHANGED <<overlays, current_overlay_id, custom_dir, builtin_dir, hotkeys, unified_menu_hotkey,
                   hotkeys_file, handle_new_trigger, captures>>
    /\ UNCHANGED crashVars

(***************************************************************************)
(* AppDelegate (ui/app.py): the session controller.                        *)
(***************************************************************************)
\* hideWindow_: NSApp.hide_
hideWindow_ ==
    /\ window' = "hidden"
    /\ UNCHANGED <<current_overlay_id, webview>>

\* handle_overlay_selection
handle_overlay_selection(overlay_id) ==
    IF set_current_overlay(overlay_id)
    THEN /\ current_overlay_id' = overlay_id
         /\ webview' = load_current_overlay(overlay_id)
         /\ window' = "key"
    ELSE UNCHANGED <<current_overlay_id, webview, window>>

\* a variant that hides a key window whatever overlay is current
toggle_overlay_any_current(overlay_id) ==
    IF window = "key"
    THEN hideWindow_
    ELSE IF set_current_overlay(overlay_id)
         THEN /\ current_overlay_id' = overlay_id
              /\ webview' = load_current_overlay(overlay_id)
              /\ window' = "key"
         ELSE UNCHANGED <<current_overlay_id, webview, window>>

\* a variant that never hides
toggle_overlay_always_show(overlay_id) ==
    IF set_current_overlay(overlay_id)
    THEN /\ current_overlay_id' = overlay_id
         /\ webview' = load_current_overlay(overlay_id)
         /\ window' = "key"
    ELSE UNCHANGED <<current_overlay_id, webview, window>>

\* toggle_overlay
toggle_overlay(overlay_id) ==
    IF /\ window = "key"
       /\ get_current_overlay # 0
       /\ overlays[get_current_overlay].id = overlay_id
    THEN hideWindow_
    ELSE IF set_current_overlay(overlay_id)
         THEN /\ current_overlay_id' = overlay_id
              /\ webview' = load_current_overlay(overlay_id)
              /\ window' = "key"
         ELSE UNCHANGED <<current_overlay_id, webview, window>>

(***************************************************************************)
(* The listener (ui/listener.py).                                          *)
(***************************************************************************)
\* a variant that stores the combination and leaves the handler installed
custom_handle_new_trigger_no_reset(flags, keycode) ==
    /\ IF handle_new_trigger.is_unified_menu
       THEN set_unified_menu_hotkey(flags, keycode)
       ELSE IF handle_new_trigger.overlay_id # None
       THEN set_overlay_hotkey(handle_new_trigger.overlay_id, flags, keycode)
       ELSE UNCHANGED <<hotkeys, unified_menu_hotkey, hotkeys_file>>
    /\ handle_new_trigger' = handle_new_trigger
    /\ last' = [Op("key", None) EXCEPT !.flags = flags, !.key = keycode,
                                       !.result = "consumed"]

\* custom_handle_new_trigger of set_new_hotkey: stores the combination and resets the
\* handler; overlay.name raises for an overlay that is not registered, before the reset
custom_handle_new_trigger(flags, keycode) ==
    IF handle_new_trigger.is_unified_menu
    THEN /\ set_unified_menu_hotkey(flags, keycode)
         /\ handle_new_trigger' = NoTrigger
         /\ last' = [Op("key", None) EXCEPT !.flags = flags, !.key = keycode,
                                            !.result = "consumed"]
    ELSE IF handle_new_trigger.overlay_id # None
    THEN /\ set_overlay_hotkey(handle_new_trigger.overlay_id, flags, keycode)
         /\ IF IsRegistered(handle_new_trigger.overlay_id)
            THEN /\ handle_new_trigger' = NoTrigger
                 /\ last' = [Op("key", None) EXCEPT !.flags = flags, !.key = keycode,
                                                    !.result = "consumed"]
            ELSE /\ handle_new_trigger' = handle_new_trigger
                 /\ last' = [Op("key", None) EXCEPT !.flags = flags, !.key = keycode,
                                                    !.result = "raised"]
    ELSE /\ handle_new_trigger' = NoTrigger
         /\ last' = [Op("key", None) EXCEPT !.flags = flags, !.key = keycode,
                                            !.result = "consumed"]
         /\ UNCHANGED <<hotkeys, unified_menu_hotkey, hotkeys_file>>

\* the window the previous call of toggle_overlay(overlay_id) started from, when the
\* most recent operation was that call
TwiceFrom(overlay_id) ==
    IF last.emit = "toggle" /\ last.arg = overlay_id THEN last.from ELSE "n/a"

\* a variant that asks the hotkey table before the pending handler
listener_key_down_hotkeys_first(raw_flags, keycode) ==
    LET flags == BitAnd(raw_flags, LAUNCHER_TRIGGER_MASK)
        result == handle_key_event(flags, keycode)
        rec == [Op("key", None) EXCEPT !.flags = flags, !.key = keycode]
    IN  IF result = "KeyError"
        THEN /\ last' = [rec EXCEPT !.result = "raised"]
             /\ UNCHANGED <<current_overlay_id, webview, window, hotkeys,
                            unified_menu_hotkey, hotkeys_file, handle_new_trigger>>
        ELSE IF result = "unified_menu"
        THEN /\ last' = [rec EXCEPT !.result = "consumed", !.emit = "show_launch_menu"]
             /\ UNCHANGED <<current_overlay_id, webview, window, hotkeys,
                            unified_menu_hotkey, hotkeys_file, handle_new_trigger>>
        ELSE IF result # None
        THEN /\ toggle_overlay(result)
             /\ last' = [rec EXCEPT !.result = "consumed", !.emit = "toggle",
                                    !.arg = result, !.from = window,
                                    !.twice_from = TwiceFrom(result)]
             /\ UNCHANGED <<hotkeys, unified_menu_hotkey, hotkeys_file, handle_new_trigger>>
        ELSE IF handle_new_trigger.pending
        THEN /\ custom_handle_new_trigger(flags, keycode)
             /\ UNCHANGED <<current_overlay_id, webview, window>>
        ELSE /\ last' = [rec EXCEPT !.result = "passed"]
             /\ UNCHANGED <<current_overlay_id, webview, window, hotkeys,
                            unified_menu_hotkey, hotkeys_file, handle_new_trigger>>

\* listener(proxy, kCGEventKeyDown, event, refcon): result "consumed" when it returns
\* None, "passed" when it returns the event, "raised" when an exception leaves it
listener_key_down(raw_flags, keycode) ==
    LET flags == BitAnd(raw_flags, LAUNCHER_TRIGGER_MASK)
        result == handle_key_event(flags, keycode)
        rec == [Op("key", None) EXCEPT !.flags = flags, !.key = keycode]
    IN  IF handle_new_trigger.pending
        THEN /\ custom_handle_new_trigger(flags, keycode)
             /\ UNCHANGED <<current_overlay_id, webview, window>>
        ELSE IF result = "KeyError"
        THEN /\ last' = [rec EXCEPT !.result = "raised"]
             /\ UNCHANGED <<current_overlay_id, webview, window, hotkeys,
                            unified_menu_hotkey, hotkeys_file, handle_new_trigger>>
        ELSE IF result = "unified_menu"
        THEN /\ last' = [rec EXCEPT !.result = "consumed", !.emit = "show_launch_menu"]
             /\ UNCHANGED <<current_overlay_id, webview, window, hotkeys,
                            unified_menu_hotkey, hotkeys_file, handle_new_trigger>>
        ELSE IF result # None
        THEN /\ toggle_overlay(result)
             /\ last' = [rec EXCEPT !.result = "consumed", !.emit = "toggle",
                                    !.arg = result, !.from = window,
                                    !.twice_from = TwiceFrom(result)]
             /\ UNCHANGED <<hotkeys, unified_menu_hotkey, hotkeys_file, handle_new_trigger>>
        ELSE /\ last' = [rec EXCEPT !.result = "passed"]
             /\ UNCHANGED <<current_overlay_id, webview, window, hotkeys,
                            unified_menu_hotkey, hotkeys_file, handle_new_trigger>>

\* a variant that keeps a handler that is already installed
set_new_hotkey_keeps_pending(overlay_id, is_unified_menu) ==
    handle_new_trigger' =
        IF handle_new_trigger.pending THEN handle_new_trigger
        ELSE [pending |-> TRUE, overlay_id |-> overlay_id, is_unified_menu |-> is_unified_menu]

\* set_new_hotkey: installs the handler
set_new_hotkey(overlay_id, is_unified_menu) ==
    handle_new_trigger' =
        [pending |-> TRUE, overlay_id |-> overlay_id, is_unified_menu |-> is_unified_menu]

(***************************************************************************)
(* Events of the running application.                                      *)
(***************************************************************************)
Running == pc.phase = "gui"

\* a variant in which key-down events arrive without an event tap
KeyDown_without_tap(raw_flags, keycode) ==
    /\ Running
    /\ listener_key_down(raw_flags, keycode)
    /\ UNCHANGED <<overlays, custom_dir, builtin_dir, pc, tap, captures>>
    /\ UNCHANGED crashVars

\* the event tap delivers a key-down event
KeyDown(raw_flags, keycode) ==
    /\ Running
    /\ tap
    /\ listener_key_down(raw_flags, keycode)
    /\ UNCHANGED <<overlays, custom_dir, builtin_dir, pc, tap, captures>>
    /\ UNCHANGED crashVars

\* the event tap delivers an event that is not a key-down: the listener returns it
OtherEvent ==
    /\ Running
    /\ tap
    /\ last.op # "event"
    /\ last' = [Op("event", None) EXCEPT !.result = "passed"]
    /\ UNCHANGED <<overlays, current_overlay_id, custom_dir, builtin_dir, hotkeys, unified_menu_hotkey,
                   hotkeys_file, handle_new_trigger, window, webview, pc, tap, captures>>
    /\ UNCHANGED crashVars

\* launchOverlay_ (menu bar) and LaunchMenu.selectOverlay_ (selector): a pick
LaunchOverlay(overlay_id) ==
    /\ Running
    /\ handle_overlay_selection(overlay_id)
    /\ last' = [Op("select", overlay_id) EXCEPT
                   !.result = IF set_current_overlay(overlay_id) THEN "true" ELSE "false"]
    /\ UNCHANGED <<overlays, custom_dir, builtin_dir, hotkeys, unified_menu_hotkey, hotkeys_file,
                   handle_new_trigger, pc, tap, captures>>
    /\ UNCHANGED crashVars

\* the close button and Command-H: hideWindow_
HideWindow ==
    /\ Running
    /\ hideWindow_
    /\ last' = Op("hide", None)
    /\ UNCHANGED <<overlays, custom_dir, builtin_dir, hotkeys, unified_menu_hotkey, hotkeys_file,
                   handle_new_trigger, pc, tap, captures>>
    /\ UNCHANGED crashVars

\* showLaunchMenu_ (menu bar): shows the selector
ShowLaunchMenu ==
    /\ Running
    /\ last.op # "menu"
    /\ last' = [Op("menu", None) EXCEPT !.emit = "show_launch_menu"]
    /\ UNCHANGED <<overlays, current_overlay_id, custom_dir, builtin_dir, hotkeys, unified_menu_hotkey,
                   hotkeys_file, handle_new_trigger, window, webview, pc, tap, captures>>
    /\ UNCHANGED crashVars

\* setUnifiedMenuHotkey_
SetUnifiedMenuHotkey ==
    /\ Running
    /\ captures < MaxCaptures
    /\ set_new_hotkey(None, TRUE)
    /\ captures' = captures + 1
    /\ last' = Op("capture", "unified_menu")
    /\ UNCHANGED <<overlays, current_overlay_id, custom_dir, builtin_dir, hotkeys, unified_menu_hotkey,
                   hotkeys_file, window, webview, pc, tap>>
    /\ UNCHANGED crashVars

\* setOverlayHotkey_ for a menu item of a registered overlay
SetOverlayHotkey(overlay_id) ==
    /\ Running
    /\ captures < MaxCaptures
    /\ IsRegistered(overlay_id)
    /\ set_new_hotkey(overlay_id, FALSE)
    /\ captures' = captures + 1
    /\ last' = Op("capture", overlay_id)
    /\ UNCHANGED <<overlays, current_overlay_id, custom_dir, builtin_dir, hotkeys, unified_menu_hotkey,
                   hotkeys_file, window, webview, pc, tap>>
    /\ UNCHANGED crashVars

\* another application becomes active: the window stays on screen but is not key
WindowResignsKey ==
    /\ Running
    /\ window = "key"
    /\ window' = "visible"
    /\ last' = Op("resign", None)
    /\ UNCHANGED <<overlays, current_overlay_id, custom_dir, builtin_dir, hotkeys, unified_menu_hotkey,
                   hotkeys_file, handle_new_trigger, webview, pc, tap, captures>>
    /\ UNCHANGED crashVars

Next ==
    \/ LoadHotkeys
    \/ DiscoverOverlays
    \/ \E site \in OverlayIds : SiteArgument(site)
    \/ \E tap_created \in BOOLEAN : ApplicationDidFinishLaunching(tap_created)
    \/ \E ev \in KeyEvents : KeyDown(ev[1], ev[2])
    \/ OtherEvent
    \/ \E overlay_id \in OverlayIds : LaunchOverlay(overlay_id)
    \/ HideWindow
    \/ ShowLaunchMenu
    \/ SetUnifiedMenuHotkey
    \/ \E overlay_id \in OverlayIds : SetOverlayHotkey(overlay_id)
    \/ WindowResignsKey

Spec == Init /\ [][Next]_vars

(***************************************************************************)
(* The registry alone: discovery over any directory of custom              *)
(* declarations, register calls, and main --list-sites.                    *)
(***************************************************************************)
InitRegistry ==
    /\ overlays = <<>>
    /\ current_overlay_id = None
    /\ custom_dir \in CustomDirs
    /\ builtin_dir \in Listings
    /\ hotkeys = <<>>
    /\ unified_menu_hotkey = UNIFIED_MENU_TRIGGER
    /\ hotkeys_file = NoFile
    /\ handle_new_trigger = NoTrigger
    /\ window = "hidden"
    /\ webview = "about:blank"
    /\ pc = [loaded |-> FALSE, discovered |-> FALSE, phase |-> "start"]
    /\ tap = FALSE
    /\ captures = 0
    /\ last = NoLast
    /\ crash_file = NoCounter
    /\ clock = StartTime
    /\ attempts = <<>>
    /\ proc = NoProcess
    /\ launcher = NoLauncher

\* a caller registers an overlay: OverlayManager.register_overlay
RegisterOverlay(overlay) ==
    /\ pc.phase = "start"
    /\ overlays' = register_overlay(overlays, overlay)
    /\ last' = Op("register", overlay.id)
    /\ UNCHANGED <<current_overlay_id, custom_dir, builtin_dir, hotkeys, unified_menu_hotkey,
                   hotkeys_file, handle_new_trigger, window, webview, pc, tap, captures>>
    /\ UNCHANGED crashVars

\* main --list-sites: prints one line per overlay of get_all_overlays() and returns,
\* so the process ends with status 0 before any window exists
ListSites ==
    /\ pc.phase = "start"
    /\ pc.discovered
    /\ last' = [Op("list_sites", None) EXCEPT
                   !.output = [i \in 1..Len(get_all_overlays(overlays)) |->
                                  get_all_overlays(overlays)[i].id]]
    /\ pc' = [pc EXCEPT !.phase = "exit"]
    /\ reset_crash_counter
    /\ proc' = [NoProcess EXCEPT !.phase = "exited", !.cause = "return",
                                 !.status = exit_status("return"), !.ran_main = TRUE]
    /\ UNCHANGED <<overlays, current_overlay_id, custom_dir, builtin_dir, hotkeys,
                   unified_menu_hotkey, hotkeys_file, handle_new_trigger, window, webview,
                   tap, captures, launcher>>

\* a caller runs discover_overlays once more
DiscoverAgain ==
    /\ pc.phase = "start"
    /\ pc.discovered
    /\ overlays' = discover_custom(discover_builtin(overlays, builtin_dir), custom_dir)
    /\ current_overlay_id' = default_current_overlay(overlays', current_overlay_id)
    /\ last' = Op("rediscover", None)
    /\ UNCHANGED <<custom_dir, builtin_dir, hotkeys, unified_menu_hotkey, hotkeys_file,
                   handle_new_trigger, window, webview, pc, tap, captures>>
    /\ UNCHANGED crashVars

\* a caller selects an overlay: OverlayManager.set_current_overlay
SetCurrentOverlay(overlay_id) ==
    /\ pc.phase = "start"
    /\ current_overlay_id' =
           IF set_current_overlay(overlay_id) THEN overlay_id ELSE current_overlay_id
    /\ last' = [Op("set_current", overlay_id) EXCEPT
                   !.result = IF set_current_overlay(overlay_id) THEN "true" ELSE "false"]
    /\ UNCHANGED <<overlays, custom_dir, builtin_dir, hotkeys, unified_menu_hotkey, hotkeys_file,
                   handle_new_trigger, window, webview, pc, tap, captures>>
    /\ UNCHANGED crashVars

\* what main leaves unchanged when it ends through sys.exit
main_sys_exit(cause) ==
    /\ pc' = [pc EXCEPT !.phase = "exit"]
    /\ proc' = [NoProcess EXCEPT !.phase = "exited", !.cause = cause,
                                 !.status = exit_status(cause), !.ran_main = TRUE]
    /\ UNCHANGED <<crash_file, clock, attempts>>

\* main returns: the wrapper resets the crash counter and the process ends with status 0
main_returns ==
    /\ pc' = [pc EXCEPT !.phase = "exit"]
    /\ proc' = [NoProcess EXCEPT !.phase = "exited", !.cause = "return",
                                 !.status = exit_status("return"), !.ran_main = TRUE]
    /\ reset_crash_counter

\* main right after its call of discover_overlays, for one command line: the flags are handled in the
\* order --list-sites, --install-startup, --uninstall-startup, --check-permissions,
\* --site, and the first one present that ends the process hides the later ones
MainWithArguments(args, trusted, result) ==
    /\ pc.phase = "start"
    /\ pc.discovered
    /\ last.op = "discover_overlays"
    /\ IF args.flag = "list_sites"
       THEN /\ last' = [Op("main", args.site) EXCEPT
                           !.output = IdList(get_all_overlays(overlays))]
            /\ main_returns
            /\ UNCHANGED <<current_overlay_id, launcher>>
       ELSE IF args.flag = "install_startup"
       THEN /\ install_startup(result)
            /\ last' = Op("main", args.site)
            /\ main_returns
            /\ UNCHANGED current_overlay_id
       ELSE IF args.flag = "uninstall_startup"
       THEN /\ uninstall_startup
            /\ last' = Op("main", args.site)
            /\ main_returns
            /\ UNCHANGED current_overlay_id
       ELSE IF args.flag = "check_permissions"
       THEN /\ last' = Op("main", args.site)
            /\ main_sys_exit(IF trusted THEN "permission_granted" ELSE "permission_denied")
            /\ UNCHANGED <<current_overlay_id, launcher>>
       ELSE IF args.site # None /\ ~set_current_overlay(args.site)
       THEN /\ last' = [Op("main", args.site) EXCEPT
                           !.output = IdList(get_all_overlays(overlays))]
            /\ main_sys_exit("unknown_site")
            /\ UNCHANGED <<current_overlay_id, launcher>>
       ELSE LET cid == IF args.site # None THEN args.site ELSE current_overlay_id
            IN  /\ current_overlay_id' = cid
                /\ last' = Op("main", args.site)
                /\ IF cid # None /\ IsRegistered(cid)
                   THEN /\ pc' = [pc EXCEPT !.phase = "gui"]
                        /\ proc' = [NoProcess EXCEPT !.phase = "main", !.ran_main = TRUE]
                        /\ UNCHANGED <<crash_file, clock, attempts>>
                   ELSE main_sys_exit("no_overlay")
                /\ UNCHANGED launcher
    /\ UNCHANGED <<overlays, custom_dir, builtin_dir, hotkeys, unified_menu_hotkey,
                   hotkeys_file, handle_new_trigger, window, webview, tap, captures>>

NextRegistry ==
    \/ \E args \in Arguments, trusted \in BOOLEAN, result \in LoadResults :
           MainWithArguments(args, trusted, result)
    \/ DiscoverOverlays
    \/ DiscoverAgain
    \/ \E overlay \in TestOverlays : RegisterOverlay(overlay)
    \/ \E overlay_id \in SelectableIds : SetCurrentOverlay(overlay_id)
    \/ ListSites

SpecRegistry == InitRegistry /\ [][NextRegistry]_vars

(***************************************************************************)
(* The crash-loop guard under a supervisor that relaunches the process.    *)
(***************************************************************************)
InitCrash ==
    /\ overlays = <<>>
    /\ current_overlay_id = None
    /\ custom_dir = <<>>
    /\ builtin_dir = <<>>
    /\ hotkeys = <<>>
    /\ unified_menu_hotkey = UNIFIED_MENU_TRIGGER
    /\ hotkeys_file = NoFile
    /\ handle_new_trigger = NoTrigger
    /\ window = "hidden"
    /\ webview = "about:blank"
    /\ pc = [loaded |-> FALSE, discovered |-> FALSE, phase |-> "start"]
    /\ tap = FALSE
    /\ captures = 0
    /\ last = NoLast
    /\ crash_file = NoCounter
    /\ clock = StartTime
    /\ attempts = <<>>
    /\ proc = NoProcess
    /\ launcher = NoLauncher

\* a start-up attempt: the wrapper of health_check_decorator calls check_crash_loop,
\* which exits the process or lets the wrapper call main
RecordAttempt(delay) ==
    /\ Len(attempts) < MaxAttempts
    /\ proc.phase # "main"
    /\ check_crash_loop(delay)
    /\ proc' = IF attempts'[Len(attempts')].result = "abort"
               THEN [NoProcess EXCEPT !.phase = "exited", !.cause = "crash_loop",
                                      !.status = exit_status("crash_loop")]
               ELSE [NoProcess EXCEPT !.phase = "main", !.ran_main = TRUE]
    /\ UNCHANGED launcher
    /\ UNCHANGED appVars

\* the wrapped main returned: the wrapper calls reset_crash_counter
RecordSuccess ==
    /\ Len(attempts) < MaxAttempts
    /\ proc.phase = "main"
    /\ reset_crash_counter
    /\ proc' = exited("return")
    /\ UNCHANGED launcher
    /\ UNCHANGED appVars

\* the wrapped main raised an Exception: the wrapper logs it and calls sys.exit(1)
MainRaises ==
    /\ proc.phase = "main"
    /\ proc' = exited("exception")
    /\ UNCHANGED <<crash_file, clock, attempts, launcher>>
    /\ UNCHANGED appVars

\* the wrapped main called sys.exit: SystemExit is no Exception and leaves the wrapper
MainExits(cause) ==
    /\ proc.phase = "main"
    /\ proc' = exited(cause)
    /\ UNCHANGED <<crash_file, clock, attempts, launcher>>
    /\ UNCHANGED appVars

\* one invocation with --check-permissions, delay seconds after the counter was last
\* used: the wrapper calls check_crash_loop, which exits the process or lets main run
\* to sys.exit(0 if is_trusted else 1); SystemExit is no Exception and the wrapper
\* does not reset the counter
ProbePermissions(delay, trusted) ==
    /\ Len(attempts) < MaxAttempts
    /\ proc.phase # "main"
    /\ check_crash_loop(delay)
    /\ proc' = IF attempts'[Len(attempts')].result = "abort"
               THEN [NoProcess EXCEPT !.phase = "exited", !.cause = "crash_loop",
                                      !.status = exit_status("crash_loop")]
               ELSE [NoProcess EXCEPT
                        !.phase = "exited",
                        !.cause = IF trusted THEN "permission_granted" ELSE "permission_denied",
                        !.status = exit_status(IF trusted THEN "permission_granted"
                                               ELSE "permission_denied"),
                        !.ran_main = TRUE]
    /\ UNCHANGED launcher
    /\ UNCHANGED appVars

NextCrash ==
    \/ \E delay \in Delays : RecordAttempt(delay)
    \/ \E delay \in Delays, trusted \in BOOLEAN : ProbePermissions(delay, trusted)
    \/ RecordSuccess
    \/ MainRaises
    \/ \E cause \in {"unknown_site", "no_overlay", "permission_denied", "permission_granted"} :
           MainExits(cause)

SpecCrash == InitCrash /\ [][NextCrash]_vars

(***************************************************************************)
(* The Launch Agent and the permission wait of                             *)
(* ensure_accessibility_permissions.                                       *)
(***************************************************************************)
\* the crash counter the process finds: none, or the count of the starts before it
CrashFiles ==
    {NoCounter} \cup
    { [exists |-> TRUE, last_time |-> StartTime, count |-> c] : c \in 1..CRASH_THRESHOLD }

InitLauncher ==
    /\ overlays = <<>>
    /\ current_overlay_id = None
    /\ custom_dir = <<>>
    /\ builtin_dir = <<>>
    /\ hotkeys = <<>>
    /\ unified_menu_hotkey = UNIFIED_MENU_TRIGGER
    /\ hotkeys_file = NoFile
    /\ handle_new_trigger = NoTrigger
    /\ window = "hidden"
    /\ webview = "about:blank"
    /\ pc = [loaded |-> FALSE, discovered |-> FALSE, phase |-> "start"]
    /\ tap = FALSE
    /\ captures = 0
    /\ last = NoLast
    /\ crash_file \in CrashFiles
    /\ clock = StartTime
    /\ attempts = <<>>
    /\ proc = NoProcess
    /\ \E installed \in BOOLEAN :
           launcher = [NoLauncher EXCEPT !.plist = installed, !.loaded = installed]

\* install_startup, from --install-startup or the menu item: last.flags is the exit
\* status it prints when the load failed
InstallStartup(result) ==
    /\ install_startup(result)
    /\ last' = [Op("install_startup", None) EXCEPT
                   !.result = IF install_startup_returns(result) THEN "true" ELSE "false",
                   !.flags = result]
    /\ UNCHANGED <<overlays, current_overlay_id, custom_dir, builtin_dir, hotkeys,
                   unified_menu_hotkey, hotkeys_file, handle_new_trigger, window, webview,
                   pc, tap, captures>>
    /\ UNCHANGED <<crash_file, clock, attempts, proc>>

\* uninstall_startup, from --uninstall-startup or the menu item
UninstallStartup ==
    /\ uninstall_startup
    /\ last' = [Op("uninstall_startup", None) EXCEPT
                   !.result = IF launcher.plist THEN "true" ELSE "false"]
    /\ UNCHANGED <<overlays, current_overlay_id, custom_dir, builtin_dir, hotkeys,
                   unified_menu_hotkey, hotkeys_file, handle_new_trigger, window, webview,
                   pc, tap, captures>>
    /\ UNCHANGED <<crash_file, clock, attempts, proc>>

\* ensure_accessibility_permissions up to the loop: check_permissions() returned trusted
EnsureAccessibilityPermissions(trusted) ==
    /\ launcher.phase = "idle"
    /\ launcher' = [launcher EXCEPT !.phase = IF trusted THEN "trusted" ELSE "waiting",
                                    !.elapsed = 0, !.probes = 0]
    /\ last' = Op("ensure_accessibility_permissions", None)
    /\ UNCHANGED <<overlays, current_overlay_id, custom_dir, builtin_dir, hotkeys,
                   unified_menu_hotkey, hotkeys_file, handle_new_trigger, window, webview,
                   pc, tap, captures>>
    /\ UNCHANGED <<crash_file, clock, attempts, proc>>

\* a variant that probes once more when the time is up
wait_continues_inclusive(elapsed) == elapsed <= MAX_WAIT_SEC

\* wait_for_permissions: while elapsed < max_wait_sec
wait_continues(elapsed) == elapsed < MAX_WAIT_SEC

\* one pass of the loop of wait_for_permissions.  get_updated_permission_status runs
\* a child with --check-permissions, which passes through check_crash_loop and reports
\* the permission (granted) unless check_crash_loop ends it.  A probe that reports the
\* permission ends the wait; otherwise the loop sleeps, adds the interval and resets
\* the crash counter, and when the time is up ensure_accessibility_permissions calls
\* uninstall_startup
WaitForPermissions(granted) ==
    /\ launcher.phase = "waiting"
    /\ LET count == new_count(crash_file, clock)
           reported == granted /\ ~crash_loop_detected(count)
           probe == [op |-> "attempt", time |-> clock, delay |-> 0, count |-> count,
                     result |-> IF crash_loop_detected(count) THEN "abort" ELSE "ok"]
           elapsed == launcher.elapsed + WAIT_INTERVAL_SEC
       IN  IF reported
           THEN /\ crash_file' = [exists |-> TRUE, last_time |-> clock, count |-> count]
                /\ attempts' = Append(attempts, probe)
                /\ clock' = clock
                /\ launcher' = [launcher EXCEPT !.phase = "granted",
                                                !.probes = launcher.probes + 1]
                /\ last' = [Op("wait_for_permissions", None) EXCEPT !.result = "true"]
           ELSE /\ crash_file' = NoCounter
                /\ attempts' = attempts \o
                       << probe,
                          [op |-> "reset", time |-> clock + WAIT_INTERVAL_SEC, delay |-> 0,
                           count |-> 0, result |-> "ok"] >>
                /\ clock' = clock + WAIT_INTERVAL_SEC
                /\ IF wait_continues(elapsed)
                   THEN /\ launcher' = [launcher EXCEPT !.elapsed = elapsed,
                                                        !.probes = launcher.probes + 1]
                        /\ last' = [Op("wait_for_permissions", None) EXCEPT !.result = "waiting"]
                   ELSE /\ launcher' = [launcher EXCEPT !.phase = "gave_up",
                                                        !.elapsed = elapsed,
                                                        !.probes = launcher.probes + 1,
                                                        !.plist = FALSE,
                                                        !.loaded = IF launcher.plist THEN FALSE
                                                                   ELSE launcher.loaded]
                        /\ last' = [Op("wait_for_permissions", None) EXCEPT !.result = "false"]
    /\ UNCHANGED <<overlays, current_overlay_id, custom_dir, builtin_dir, hotkeys,
                   unified_menu_hotkey, hotkeys_file, handle_new_trigger, window, webview,
                   pc, tap, captures>>
    /\ UNCHANGED proc

NextLauncher ==
    \/ \E result \in LoadResults : InstallStartup(result)
    \/ UninstallStartup
    \/ \E trusted \in BOOLEAN : EnsureAccessibilityPermissions(trusted)
    \/ \E granted \in BOOLEAN : WaitForPermissions(granted)

SpecLauncher == InitLauncher /\ [][NextLauncher]_vars

\* the loop of wait_for_permissions does not stop between two passes
SpecLauncherLive ==
    SpecLauncher /\ WF_vars(\E granted \in BOOLEAN : WaitForPermissions(granted))

(***************************************************************************)
(* Vocabulary of the properties.                                           *)
(***************************************************************************)
\* the combinations the key-down events carry after masking
KeyPairs == { <<BitAnd(ev[1], LAUNCHER_TRIGGER_MASK), ev[2]>> : ev \in KeyEvents }

\* the actions (the selector, overlay ids) whose binding is exactly (flags, keycode)
BoundTo(flags, keycode) ==
    (IF unified_menu_hotkey = [flags |-> flags, key |-> keycode]
     THEN {"unified_menu"} ELSE {})
    \cup { hotkeys[i].id : i \in { j \in 1..Len(hotkeys) :
                                     hotkeys[j].hk = [flags |-> flags, key |-> keycode] } }

\* HotkeyTable.get(target)
Binding(target) ==
    IF target = "unified_menu" THEN unified_menu_hotkey ELSE get_overlay_hotkey(target)

\* the url of a registered overlay
UrlOf(overlay_id) == overlays[IndexOf(overlays, overlay_id, 1)].url

(***************************************************************************)
(* C1: for every key-down pair, handle_key_event returns the one action    *)
(* bound to exactly that pair, and None when no action is bound to it; it  *)
(* never returns an action whose binding differs from the pair in a field. *)
(* The code raises KeyError instead when the table holds an entry without  *)
(* 'flags' or 'key'.                                                       *)
(***************************************************************************)
C1_MatchAction ==
    Running =>
        \A pair \in KeyPairs :
            LET bound == BoundTo(pair[1], pair[2])
                result == handle_key_event(pair[1], pair[2])
            IN  /\ Cardinality(bound) = 1 => result \in bound
                /\ bound = {} => result = None
                /\ result \in {None} \cup bound

(***************************************************************************)
(* C2: in Idle a key-down that matches a binding emits exactly one action  *)
(* (toggle of a matched overlay, or the selector) and is consumed; a       *)
(* key-down that matches none, and any other event, is passed through,     *)
(* emits nothing and changes no state.  The code raises KeyError instead   *)
(* when the scan meets an entry without 'flags' or 'key'.                  *)
(***************************************************************************)
C2_IdleClassification ==
    [][ (last'.op \in {"key", "event"} /\ ~handle_new_trigger.pending) =>
            LET bound == BoundTo(last'.flags, last'.key)
            IN  IF last'.op = "key" /\ bound # {}
                THEN /\ last'.result = "consumed"
                     /\ \/ last'.emit = "show_launch_menu" /\ "unified_menu" \in bound
                        \/ last'.emit = "toggle" /\ last'.arg \in bound
                ELSE /\ last'.result = "passed"
                     /\ last'.emit = "none"
                     /\ UNCHANGED <<overlays, current_overlay_id, hotkeys, unified_menu_hotkey,
                                    hotkeys_file, handle_new_trigger, window, webview>>
      ]_vars

(***************************************************************************)
(* C3: after capture was entered for target T and one key-down (m, k) was  *)
(* delivered, get(T) = (m, k) and no capture handler is pending.           *)
(***************************************************************************)
C3_CaptureRoundTrip ==
    (last.op = "key" /\ last.capturing # None) =>
        /\ Binding(last.capturing) = [flags |-> last.flags, key |-> last.key]
        /\ ~handle_new_trigger.pending

\* a capture for grok took Option+Shift+Space
C3_Witness ==
    /\ last.op = "key"
    /\ last.capturing = "grok"
    /\ last.flags = 655360
    /\ get_overlay_hotkey("grok") = [flags |-> 655360, key |-> 49]
    /\ ~handle_new_trigger.pending

(***************************************************************************)
(* C4: while a capture is pending, the next key-down is consumed and emits *)
(* neither a toggle nor the selector, whatever bindings it equals, and the *)
(* capture ends with it.                                                   *)
(***************************************************************************)
C4_CaptureConsumes ==
    [][ (last'.op = "key" /\ handle_new_trigger.pending) =>
            /\ last'.result = "consumed"
            /\ last'.emit = "none"
            /\ ~handle_new_trigger'.pending
            /\ UNCHANGED <<current_overlay_id, window, webview>>
      ]_vars

\* the captured key-down equals the selector's binding, and nothing was emitted
C4_Witness ==
    /\ last.op = "key"
    /\ last.capturing \in {"grok", "claude"}
    /\ last.result = "consumed"
    /\ unified_menu_hotkey = [flags |-> last.flags, key |-> last.key]

C6_ToggleAndHide ==
    [][ /\ (last'.emit = "toggle" /\ IsRegistered(last'.arg)) =>
               IF window = "key" /\ current_overlay_id = last'.arg
               THEN /\ window' = "hidden"
                    /\ current_overlay_id' = current_overlay_id
               ELSE /\ current_overlay_id' = last'.arg
                    /\ webview' = UrlOf(last'.arg)
                    /\ window' = "key"
        /\ last'.op = "hide" =>
               /\ window' = "hidden"
               /\ current_overlay_id' = current_overlay_id
      ]_vars

\* a toggle of the current overlay found the window key and hid it
C6_Witness ==
    /\ last.emit = "toggle"
    /\ last.from = "key"
    /\ last.arg = current_overlay_id
    /\ window = "hidden"

(***************************************************************************)
(* C7, as the specification states it: toggle_overlay(id) called twice in  *)
(* a row from a hidden window, id registered, ends with the window shown   *)
(* and id current.                                                         *)
(***************************************************************************)
C7_ToggleTwiceShows ==
    (last.emit = "toggle" /\ last.twice_from = "hidden" /\ IsRegistered(last.arg)) =>
        /\ window # "hidden"
        /\ current_overlay_id = last.arg

(***************************************************************************)
(* C7, amended: toggle_overlay(id) called twice in a row from a hidden     *)
(* window, id registered, ends with the window hidden again and id         *)
(* current: the first call shows the overlay and the second hides it.      *)
(***************************************************************************)
C7_ToggleTwiceHides ==
    (last.emit = "toggle" /\ last.twice_from = "hidden" /\ IsRegistered(last.arg)) =>
        /\ last.from = "key"
        /\ window = "hidden"
        /\ current_overlay_id = last.arg

\* grok was toggled twice in a row from a hidden window
C7_Witness ==
    /\ last.emit = "toggle"
    /\ last.twice_from = "hidden"
    /\ last.arg = "grok"
    /\ window = "hidden"

(***************************************************************************)
(* C8: a pick of a registered id makes set_current_overlay return true,    *)
(* makes the id current, loads its url and shows the window; with an id    *)
(* that is not registered it returns false and the current overlay, the    *)
(* loaded page and the window stay as they were, and so they do under      *)
(* toggle_overlay of an id that is not registered.                         *)
(***************************************************************************)
C8_SelectOverlay ==
    [][ /\ last'.op = "select" =>
               IF IsRegistered(last'.arg)
               THEN /\ last'.result = "true"
                    /\ current_overlay_id' = last'.arg
                    /\ webview' = UrlOf(last'.arg)
                    /\ window' = "key"
               ELSE /\ last'.result = "false"
                    /\ UNCHANGED <<current_overlay_id, webview, window>>
        /\ (last'.emit = "toggle" /\ ~IsRegistered(last'.arg)) =>
               UNCHANGED <<current_overlay_id, webview, window>>
      ]_vars

\* a pick of an id that is not registered, made while grok was shown
C8_Witness ==
    /\ last.op = "select"
    /\ ~IsRegistered(last.arg)
    /\ last.result = "false"
    /\ window = "key"
    /\ current_overlay_id = "grok"
    /\ webview = UrlOf("grok")

(***************************************************************************)
(* C9: check_crash_loop at time now with the stored (timestamp, count):    *)
(* the new count is count + 1 when now - timestamp < 60 and 1 otherwise,   *)
(* 1 too when nothing is stored; (now, new count) is what the file holds   *)
(* afterwards; the call aborts exactly when the new count exceeds 3.  An   *)
(* attempt 120 s after the previous one counts 1 and is let through.       *)
(***************************************************************************)
C9_RecordAttempt ==
    /\ \A i \in 1..Len(attempts) :
           attempts[i].op = "attempt" =>
               LET stored == i > 1 /\ attempts[i - 1].op = "attempt"
                   expected ==
                       IF stored /\ attempts[i].time - attempts[i - 1].time < 60
                       THEN attempts[i - 1].count + 1 ELSE 1
               IN  /\ attempts[i].count = expected
                   /\ attempts[i].result = "abort" <=> attempts[i].count > 3
                   /\ attempts[i].result \in {"ok", "abort"}
                   /\ attempts[i].delay = 120 =>
                          attempts[i].count = 1 /\ attempts[i].result = "ok"
    /\ (attempts # <<>> /\ attempts[Len(attempts)].op = "attempt") =>
           crash_file = [exists |-> TRUE, last_time |-> attempts[Len(attempts)].time,
                         count |-> attempts[Len(attempts)].count]

\* an attempt made 120 s after one that aborted at count 4
C9_Witness ==
    /\ Len(attempts) >= 2
    /\ attempts[Len(attempts)].op = "attempt"
    /\ attempts[Len(attempts)].delay = 120
    /\ attempts[Len(attempts)].count = 1
    /\ attempts[Len(attempts)].result = "ok"
    /\ attempts[Len(attempts) - 1].count = 4
    /\ attempts[Len(attempts) - 1].result = "abort"

\* attempts i, i + 1 and i + 2 are consecutive calls of check_crash_loop, all within
\* 10 seconds, the first of which found no count to continue
ThreeAttempts(i) ==
    /\ i + 2 <= Len(attempts)
    /\ \A j \in i..(i + 2) : attempts[j].op = "attempt"
    /\ attempts[i].count = 1
    /\ attempts[i + 2].time - attempts[i].time <= 10

(***************************************************************************)
(* C10, as the specification states it: three calls of check_crash_loop    *)
(* within 10 seconds of each other yield ok, ok, abort.                    *)
(***************************************************************************)
C10_ThirdAttemptAborts ==
    \A i \in 1..Len(attempts) :
        ThreeAttempts(i) =>
            /\ attempts[i].result = "ok"
            /\ attempts[i + 1].result = "ok"
            /\ attempts[i + 2].result = "abort"

(***************************************************************************)
(* C10, amended: three calls of check_crash_loop within 10 seconds of each *)
(* other, the first starting a count, yield ok, ok, ok with the counts 1,  *)
(* 2, 3; it is a fourth call within the same 10 seconds that aborts, its   *)
(* count being 4 > 3.                                                      *)
(***************************************************************************)
C10_FourthAttemptAborts ==
    \A i \in 1..Len(attempts) :
        ThreeAttempts(i) =>
            /\ attempts[i].result = "ok"
            /\ attempts[i + 1].count = 2 /\ attempts[i + 1].result = "ok"
            /\ attempts[i + 2].count = 3 /\ attempts[i + 2].result = "ok"
            /\ ( /\ i + 3 <= Len(attempts)
                 /\ attempts[i + 3].op = "attempt"
                 /\ attempts[i + 3].time - attempts[i].time <= 10 ) =>
                   attempts[i + 3].count = 4 /\ attempts[i + 3].result = "abort"

\* four attempts within 10 seconds: the third was let through, the fourth aborted
C10_Witness ==
    /\ Len(attempts) >= 4
    /\ ThreeAttempts(1)
    /\ attempts[3].result = "ok"
    /\ attempts[4].op = "attempt"
    /\ attempts[4].time - attempts[1].time <= 10
    /\ attempts[4].result = "abort"

(***************************************************************************)
(* C11: when the wrapped main returns, reset_crash_counter removes the     *)
(* counter file, and the next check_crash_loop counts 1 and lets the       *)
(* process through, however many attempts came before; when main raises    *)
(* an exception the file keeps the count of the attempt.                   *)
(***************************************************************************)
C11_CleanRunClears ==
    /\ \A i \in 1..Len(attempts) :
           attempts[i].op = "reset" =>
               /\ i = Len(attempts) => crash_file = NoCounter /\ proc.cause = "return"
               /\ i < Len(attempts) =>
                      /\ attempts[i + 1].op = "attempt"
                      /\ attempts[i + 1].count = 1
                      /\ attempts[i + 1].result = "ok"
    /\ (proc.phase = "exited" /\ proc.cause = "return") =>
           attempts[Len(attempts)].op = "reset"
    /\ (proc.phase = "exited" /\ proc.cause = "exception") =>
           /\ attempts[Len(attempts)].op = "attempt"
           /\ crash_file = [exists |-> TRUE, last_time |-> attempts[Len(attempts)].time,
                            count |-> attempts[Len(attempts)].count]

\* three attempts had been counted when main returned; the attempt made at once after
\* the clean run counted 1
C11_Witness ==
    /\ Len(attempts) = 5
    /\ attempts[3].count = 3
    /\ attempts[4].op = "reset"
    /\ attempts[5].op = "attempt"
    /\ attempts[5].delay = 0
    /\ attempts[5].count = 1
    /\ attempts[5].result = "ok"

(***************************************************************************)
(* C12: when check_crash_loop aborts, the process exits with a non-zero    *)
(* status that differs from the status of every other failure exit (an     *)
(* exception in main, an unknown --site, a denied permission probe), main  *)
(* was not run and no process was relaunched.  The code exits with status  *)
(* 1 in all of these cases.                                                *)
(***************************************************************************)
C12_AbortStatus ==
    (proc.phase = "exited" /\ proc.cause = "crash_loop") =>
        /\ proc.status # 0
        /\ ~proc.ran_main
        /\ ~proc.relaunched
        /\ \A cause \in {"exception", "unknown_site", "permission_denied"} :
               exit_status(cause) # proc.status

(***************************************************************************)
(* C13: every set is persisted at once.  After a capture stored a binding  *)
(* (set_overlay_hotkey or set_unified_menu_hotkey), a store constructed    *)
(* from the file returns that binding for its action and, for the selector *)
(* and every overlay of the table, the binding the live store holds; and   *)
(* no other step of the running application changes the table or the file, *)
(* so the file always holds the bindings most recently set.                *)
(***************************************************************************)
C13_SetPersists ==
    [][ Running =>
          IF last'.op = "key" /\ handle_new_trigger.pending
          THEN LET fresh == fresh_store(hotkeys_file', overlays')
               IN  /\ store_get(fresh, last'.capturing) = [flags |-> last'.flags, key |-> last'.key]
                   /\ fresh.unified_menu_hotkey = unified_menu_hotkey'
                   /\ \A id \in Ids(hotkeys') :
                          store_get(fresh, id) = hotkeys'[IndexOf(hotkeys', id, 1)].hk
          ELSE UNCHANGED <<hotkeys, unified_menu_hotkey, hotkeys_file>>
      ]_vars

\* two sets were made, of grok and then of the selector: the file holds both
C13_Witness ==
    /\ last.op = "key"
    /\ last.capturing = "unified_menu"
    /\ captures = 2
    /\ hotkeys_file.exists
    /\ hotkeys_file.unified_menu = [flags |-> 524288, key |-> 36]
    /\ store_get(fresh_store(hotkeys_file, overlays), "grok") = [flags |-> 655360, key |-> 49]
    /\ store_get(fresh_store(hotkeys_file, <<>>), "unified_menu") = [flags |-> 524288, key |-> 36]

\* the binding the file Init found stores for overlay id, EmptyHotkey when it stores none
stored_binding(id) ==
    LET i == IF hotkeys_file.exists THEN IndexOf(hotkeys_file.overlays, id, 1) ELSE 0
    IN  IF i = 0 THEN EmptyHotkey ELSE hotkeys_file.overlays[i].hk

\* whether the file stores a binding for overlay id
has_stored_binding(id) ==
    hotkeys_file.exists /\ HasKey(hotkeys_file.overlays, id)

(***************************************************************************)
(* C14: once the hotkeys are loaded and the overlays registered (and no    *)
(* binding was set since), every registered overlay has a binding: the     *)
(* stored one when the file stores one, its default_hotkey otherwise; and  *)
(* the selector has the stored binding, or UNIFIED_MENU_TRIGGER when the   *)
(* file stores none.  The store is constructed when its module is          *)
(* imported, before main discovers the overlays, and then merges nothing.  *)
(***************************************************************************)
C14_LoadMergesDefaults ==
    (pc.loaded /\ pc.discovered /\ captures = 0) =>
        /\ \A i \in 1..Len(overlays) :
               /\ HasKey(hotkeys, overlays[i].id)
               /\ get_overlay_hotkey(overlays[i].id) =
                      IF has_stored_binding(overlays[i].id)
                      THEN stored_binding(overlays[i].id)
                      ELSE overlays[i].default_hotkey
        /\ unified_menu_hotkey =
               IF hotkeys_file.exists /\ hotkeys_file.has_unified
               THEN hotkeys_file.unified_menu ELSE UNIFIED_MENU_TRIGGER

\* a binding is a record with both 'flags' and 'key'
WellFormed(hotkey) == hotkey.flags # MISSING /\ hotkey.key # MISSING

(***************************************************************************)
(* C15: loading a file with a malformed entry ignores that entry: the      *)
(* overlay does not get the malformed record (it gets its default_hotkey   *)
(* when it is registered), a malformed selector entry gives way to         *)
(* UNIFIED_MENU_TRIGGER, the well-formed entries are loaded, and, the      *)
(* defaults being well-formed, handle_key_event never raises.  The code    *)
(* takes data['overlays'] and data['unified_menu'] as they are.            *)
(***************************************************************************)
C15_MalformedIgnored ==
    /\ (pc.loaded /\ captures = 0 /\ hotkeys_file.exists) =>
           /\ \A i \in 1..Len(hotkeys_file.overlays) :
                  LET entry == hotkeys_file.overlays[i]
                  IN  IF WellFormed(entry.hk)
                      THEN get_overlay_hotkey(entry.id) = entry.hk
                      ELSE /\ get_overlay_hotkey(entry.id) # entry.hk
                           /\ (pc.discovered /\ IsRegistered(entry.id)) =>
                                  get_overlay_hotkey(entry.id) =
                                      overlays[IndexOf(overlays, entry.id, 1)].default_hotkey
           /\ (hotkeys_file.has_unified /\ ~WellFormed(hotkeys_file.unified_menu)) =>
                  unified_menu_hotkey = UNIFIED_MENU_TRIGGER
    /\ (Running /\ \A i \in 1..Len(overlays) : WellFormed(overlays[i].default_hotkey)) =>
           \A pair \in KeyPairs : handle_key_event(pair[1], pair[2]) # "KeyError"

\* the live store
live_store == [hotkeys |-> hotkeys, unified_menu_hotkey |-> unified_menu_hotkey]

(***************************************************************************)
(* C16: a set of action A changes A's entry only: the selector and every   *)
(* overlay other than A keep their bindings, also when the combination set *)
(* is the one some of them is bound to, and no entry leaves the table.     *)
(***************************************************************************)
C16_SetChangesOneEntry ==
    [][ (last'.op = "key" /\ handle_new_trigger.pending) =>
            /\ \A target \in (Ids(hotkeys) \cup {"unified_menu"}) \ {last'.capturing} :
                   store_get(live_store', target) = store_get(live_store, target)
            /\ Ids(hotkeys') = Ids(hotkeys) \cup ({last'.capturing} \ {"unified_menu"})
            /\ store_get(live_store', last'.capturing) = [flags |-> last'.flags, key |-> last'.key]
      ]_vars

\* claude was set to Option+Space, which grok is bound to: they share it
C16_Witness ==
    /\ last.op = "key"
    /\ last.capturing = "claude"
    /\ get_overlay_hotkey("claude") = [flags |-> 524288, key |-> 49]
    /\ get_overlay_hotkey("grok") = [flags |-> 524288, key |-> 49]

\* the action that comes first among those bound to (flags, keycode): the selector,
\* which handle_key_event asks first, then the overlays in the table's insertion order
FirstBound(flags, keycode) ==
    LET bound == BoundTo(flags, keycode)
        first == CHOOSE i \in 1..Len(hotkeys) :
                     /\ hotkeys[i].id \in bound
                     /\ \A j \in 1..(i - 1) : hotkeys[j].id \notin bound
    IN  IF "unified_menu" \in bound THEN "unified_menu" ELSE hotkeys[first].id

(***************************************************************************)
(* C17: when several actions share a combination, handle_key_event on it   *)
(* returns the one that comes first in the store's order.  The code raises *)
(* KeyError instead when an entry without 'flags' or 'key' comes before    *)
(* them in the table.                                                      *)
(***************************************************************************)
C17_FirstInInsertionOrder ==
    Running =>
        \A pair \in KeyPairs :
            Cardinality(BoundTo(pair[1], pair[2])) > 1 =>
                handle_key_event(pair[1], pair[2]) = FirstBound(pair[1], pair[2])

\* the declaration parses and carries the four required fields, none of them empty
declared_valid(file) ==
    /\ parses(file)
    /\ {"<absent>", ""} \cap {file.id, file.name, file.url, file.iconPath} = {}

\* discover_overlays has just returned
Discovered == last.op = "discover_overlays"

(***************************************************************************)
(* C18: once discover_overlays has returned, no file of overlays/custom    *)
(* that is unparsable, lacks a required field or has an empty required     *)
(* field is in the registry, and every built-in overlay and every valid    *)
(* declaration is.  The code registers a declaration whose iconPath is     *)
(* empty (see C19).                                                        *)
(***************************************************************************)
C18_BadEntriesSkipped ==
    Discovered =>
        /\ \A i \in 1..Len(custom_dir) :
               IF declared_valid(custom_dir[i])
               THEN IsRegistered(custom_dir[i].id)
               ELSE ~IsRegistered(custom_dir[i].id)
        /\ \A i \in 1..Len(builtin_dir) : IsRegistered(builtin_dir[i].id)

\* one of id, name, url and iconPath of the declaration is the empty string
has_empty_field(file) ==
    "" \in {file.id, file.name, file.url, file.iconPath}

(***************************************************************************)
(* C19: every overlay discover_overlays registers was declared with id,    *)
(* name, url and iconPath all non-empty.  The code replaces the icon path  *)
(* of a declaration by get_absolute_icon_path(custom_dir) before it        *)
(* validates, and that path is non-empty also when iconPath is empty.      *)
(***************************************************************************)
C19_RegisteredDeclaredNonEmpty ==
    [][ Discovered' =>
            \A i \in 1..Len(overlays') :
                \/ \E j \in 1..Len(overlays) : overlays[j] = overlays'[i]
                \/ \E j \in 1..Len(builtin_dir) :
                       /\ builtin_dir[j].id = overlays'[i].id
                       /\ validate(builtin_dir[j])
                \/ \E j \in 1..Len(custom_dir) :
                       /\ custom_dir[j].id = overlays'[i].id
                       /\ ~has_empty_field(custom_dir[j])
      ]_vars

C21_DefaultCurrentOverlay ==
    [][ /\ (DiscoverOverlays /\ overlays = <<>>) =>
               /\ current_overlay_id' = builtin_dir[1].id
               /\ current_overlay_id' = overlays'[1].id
        /\ overlays' = <<>> => current_overlay_id' = None
        /\ (pc'.discovered /\ overlays' # <<>>) => current_overlay_id' # None
        /\ ( /\ current_overlay_id # None
             /\ \/ DiscoverOverlays
                \/ DiscoverAgain
                \/ \E overlay \in TestOverlays : RegisterOverlay(overlay) ) =>
               current_overlay_id' = current_overlay_id
      ]_vars

\* discovery ran again while an overlay other than the first was current, and it still is
C21_Witness ==
    /\ last.op = "rediscover"
    /\ current_overlay_id # None
    /\ current_overlay_id # overlays[1].id

(***************************************************************************)
(* C22: a command line with --site <id> for an id that is not registered   *)
(* makes the process print the available overlays and end with status 1    *)
(* without starting the GUI, whatever other flag accompanies it; with a    *)
(* registered id that overlay is current when the GUI starts.  The code    *)
(* handles --list-sites, --install-startup, --uninstall-startup and        *)
(* --check-permissions before it looks at --site.                          *)
(***************************************************************************)
C22_UnknownSiteExits ==
    [][ \A args \in Arguments, trusted \in BOOLEAN, result \in LoadResults :
            (MainWithArguments(args, trusted, result) /\ args.site # None) =>
                IF IsRegistered(args.site)
                THEN pc'.phase = "gui" => current_overlay_id' = args.site
                ELSE /\ last'.output = IdList(get_all_overlays(overlays))
                     /\ proc'.phase = "exited"
                     /\ proc'.status = 1
                     /\ pc'.phase # "gui"
      ]_vars

(***************************************************************************)
(* C23: every invocation with --check-permissions ends with status 0 when  *)
(* the Accessibility permission is granted and with a non-zero status when *)
(* it is not, however many probes or launches came before it.  In the code *)
(* each probe passes through check_crash_loop and leaves through sys.exit, *)
(* so it counts as a start that never succeeded.                           *)
(***************************************************************************)
C23_ProbeStatus ==
    [][ \A delay \in Delays, trusted \in BOOLEAN :
            ProbePermissions(delay, trusted) =>
                /\ proc'.phase = "exited"
                /\ trusted => proc'.status = 0
                /\ ~trusted => proc'.status # 0
      ]_vars

(***************************************************************************)
(* C24: when launchctl load fails, install_startup returns False, prints   *)
(* the failing exit status and leaves no partial state: a Launch Agent     *)
(* file exists afterwards only if it existed before the call.  The code    *)
(* writes the file before it runs launchctl load and does not remove it    *)
(* when the load fails.                                                    *)
(***************************************************************************)
C24_FailedInstallLeavesNothing ==
    [][ \A result \in LoadResults :
            (InstallStartup(result) /\ result # 0) =>
                /\ last'.result = "false"
                /\ last'.flags = result
                /\ launcher'.plist = launcher.plist
                /\ launcher'.loaded = launcher.loaded
      ]_vars

(***************************************************************************)
(* C26: the permission wait terminates.  The passes of the loop are        *)
(* WAIT_INTERVAL_SEC apart; the wait returns true at the first probe that  *)
(* reports the permission; it returns false after MAX_WAIT_SEC /           *)
(* WAIT_INTERVAL_SEC = 12 probes that did not, never after more; and when  *)
(* it gives up no Launch Agent is left installed.                          *)
(***************************************************************************)
C26_WaitTerminates ==
    /\ [][ \A granted \in BOOLEAN :
               WaitForPermissions(granted) =>
                   /\ launcher'.probes = launcher.probes + 1
                   /\ launcher'.probes <= MAX_WAIT_SEC \div WAIT_INTERVAL_SEC
                   /\ last'.result = "true" <=>
                          (granted /\ ~crash_loop_detected(new_count(crash_file, clock)))
                   /\ last'.result = "true" => launcher'.phase = "granted"
                   /\ last'.result # "true" =>
                          /\ clock' = clock + WAIT_INTERVAL_SEC
                          /\ launcher'.elapsed = WAIT_INTERVAL_SEC * launcher'.probes
                   /\ last'.result = "false" <=>
                          (last'.result # "true" /\
                           launcher'.probes = MAX_WAIT_SEC \div WAIT_INTERVAL_SEC)
                   /\ last'.result = "false" =>
                          /\ launcher'.phase = "gave_up"
                          /\ ~launcher'.plist
                          /\ ~launcher'.loaded
                   /\ last'.result = "waiting" => launcher'.phase = "waiting"
         ]_vars
    /\ (launcher.phase = "waiting") ~> (launcher.phase \in {"granted", "gave_up"})

\* the wait gave up after twelve probes, a minute after it began, and removed the
\* Launch Agent that was installed
C26_Witness ==
    /\ launcher.phase = "gave_up"
    /\ launcher.probes = 12
    /\ last.op = "wait_for_permissions"
    /\ last.result = "false"
    /\ ~launcher.plist

C27_OnlyCaptureReplacesCapture ==
    [][ handle_new_trigger.pending =>
            /\ last'.op \notin {"key", "capture"} =>
                   handle_new_trigger' = handle_new_trigger
            /\ last'.op = "capture" =>
                   /\ handle_new_trigger'.pending
                   /\ Capturing' = last'.arg
                   /\ UNCHANGED <<hotkeys, unified_menu_hotkey, hotkeys_file>>
            /\ last'.op = "key" =>
                   /\ ~handle_new_trigger'.pending
                   /\ last'.result = "consumed"
                   /\ last'.emit = "none"
                   /\ store_get(live_store', Capturing) =
                          [flags |-> last'.flags, key |-> last'.key]
                   /\ \A target \in (Ids(hotkeys) \cup {"unified_menu"}) \ {Capturing} :
                          store_get(live_store', target) = store_get(live_store, target)
      ]_vars

\* a capture was requested for claude while the capture for grok was pending
C27_Witness ==
    /\ last.op = "capture"
    /\ last.capturing = "grok"
    /\ last.arg = "claude"
    /\ Capturing = "claude"

(***************************************************************************)
(* C28: with no hotkey file the default bindings of the selector and of    *)
(* the four built-in overlays are pairwise distinct, and in Idle a         *)
(* key-down equal to the default hotkey of a registered built-in overlay   *)
(* is classified as that overlay.  In the code ClaudeOverlay.default_hotkey *)
(* is UNIFIED_MENU_TRIGGER, flags 655360 and key 49.                       *)
(***************************************************************************)
C28_DefaultsDistinct ==
    (Running /\ ~hotkeys_file.exists) =>
        /\ \A a, b \in BuiltinOverlays : a # b => a.default_hotkey # b.default_hotkey
        /\ \A a \in BuiltinOverlays : a.default_hotkey # UNIFIED_MENU_TRIGGER
        /\ \A i \in 1..Len(overlays) :
               overlays[i] \in BuiltinOverlays =>
                   handle_key_event(overlays[i].default_hotkey.flags,
                                    overlays[i].default_hotkey.key) = overlays[i].id

(***************************************************************************)
(* C29: the crash guard does not recover under a fast supervisor.  An      *)
(* attempt that aborts still writes its time and its count to the file;    *)
(* nothing removes the file after an abort, since main did not run; and    *)
(* the attempt that follows an aborted one less than CRASH_TIME_WINDOW     *)
(* seconds later aborts too, with the count one higher.  An attempt made   *)
(* CRASH_TIME_WINDOW seconds or more after the aborted one starts again    *)
(* at count 1.                                                             *)
(***************************************************************************)
C29_AbortPersists ==
    /\ \A i \in 1..Len(attempts) :
           (attempts[i].op = "attempt" /\ attempts[i].result = "abort") =>
               /\ i = Len(attempts) =>
                      crash_file = [exists |-> TRUE, last_time |-> attempts[i].time,
                                    count |-> attempts[i].count]
               /\ i < Len(attempts) =>
                      /\ attempts[i + 1].op = "attempt"
                      /\ IF attempts[i + 1].delay < CRASH_TIME_WINDOW
                         THEN /\ attempts[i + 1].result = "abort"
                              /\ attempts[i + 1].count = attempts[i].count + 1
                         ELSE /\ attempts[i + 1].result = "ok"
                              /\ attempts[i + 1].count = 1

\* the fourth attempt aborted and the fifth, 59 seconds later, aborted with count 5
C29_Witness ==
    /\ Len(attempts) = 5
    /\ attempts[4].result = "abort"
    /\ attempts[5].result = "abort"
    /\ attempts[5].delay = 59
    /\ attempts[5].count = 5
    /\ crash_file.count = 5
    /\ proc.cause = "crash_loop"

(***************************************************************************)
(* C30: every action handle_key_event returns is executable: while the     *)
(* application runs, handle_key_event returns, for every combination, only *)
(* 'unified_menu' or the id of a registered overlay (or None, for which    *)
(* the listener passes the event on; the calls that raise are C15's).  The *)
(* code returns the id of an entry of hotkeys.json whose overlay is not    *)
(* registered: load_hotkeys replaces the table by the file's, so the       *)
(* listener consumes the key-down and toggle_overlay does nothing.         *)
(***************************************************************************)
C30_ReturnsRegistered ==
    Running =>
        \A pair \in KeyPairs :
            LET action == handle_key_event(pair[1], pair[2])
            IN  action \notin {None, "KeyError"} =>
                    action \in {"unified_menu"} \cup Ids(overlays)

====
